---- MODULE Spec2Model ----
(***************************************************************************)
(* ReactionMechanizer: a model of                                          *)
(*   src/src/reaction_mechanizer/pathway/reaction.py                       *)
(*       SimpleStep, ReactionMechanism, DifferentialEquationModel          *)
(*   src/src/reaction_mechanizer/drawing/mechanism_reaction_visualizer.py  *)
(*       ReactionEvent, ReactionVisualizer                                 *)
(*                                                                         *)
(* The specifications share the variables of this module:                  *)
(*   SpecParse     text -> SimpleStep -> text -> SimpleStep, and           *)
(*                 SimpleStep + SimpleStep                                 *)
(*   SpecRate      mechanism -> rate constants -> differential equations   *)
(*   SpecStep      one SimpleStep -> the equation of one species           *)
(*   SpecSetRates  mechanism -> rate constants -> rate constants           *)
(*   SpecMech      mechanism -> intermediates, mechanism == mechanism      *)
(*   Spec          ReactionVisualizer.progress_reaction, one loop          *)
(*                 iteration per step                                      *)
(*   SpecRobust    ReactionVisualizer.progress_reaction_robust, likewise   *)
(*                                                                         *)
(* Representation.                                                         *)
(*   str        a sequence of one-character strings                        *)
(*   number     [n, d, f]: the value n/d in lowest terms, f = "is a Python *)
(*              float". Denominators of the parsed and printed inputs are  *)
(*              0, 1, 2 or 4, so that every float the program computes     *)
(*              from them is exact; the coefficient 1/20000 of SpecMech    *)
(*              is only compared with the tolerance 1e-4.                  *)
(*   dict       a sequence of [k, v] with distinct keys, in insertion      *)
(*              order                                                      *)
(*   exception  a result record [exc, val] with exc # ""                   *)
(***************************************************************************)
EXTENDS Integers, Sequences, FiniteSets, TLC

VARIABLES
    pc,             \* position of the running call
    call,           \* SpecParse: what built parsed: "str_to_step", "SimpleStep", "__add__"
    args,           \* SpecParse: the dicts handed to SimpleStep(...), of self in self + other
    other_args,     \* SpecParse: the dicts of the right operand of self + other
    text,           \* SpecParse: the str handed to str_to_step
    parsed,         \* SpecParse: result of str_to_step(text) / SimpleStep(...)
    printed,        \* SpecParse: str(parsed)
    reparsed,       \* SpecParse: result of str_to_step(printed)
    mech,           \* SpecRate: ReactionMechanism.steps
    rates,          \* SpecRate: the list handed to set_rate_constants
    odes,           \* SpecRate: result of mechanism.get_differential_equations()
    step_index,     \* SpecRate: the step asked for its own equations
    step_odes,      \* SpecRate: result of steps[step_index].get_differential_equations()
    of_species,     \* SpecStep: the species handed to get_differential_equation_of
    species_ode,    \* SpecStep: result of step.get_differential_equation_of(species)
    mech_before,    \* SpecMech: the steps as the last set_rate_constants call found them
    intermediates,  \* SpecMech: result of mech.get_intermediates()
    other_mech,     \* SpecMech: the steps of the right operand of mech == other
    equal,          \* SpecMech: result of mech == other
    initial_state,  \* Spec: progress_reaction argument, species -> concentration
    events,         \* Spec: progress_reaction argument, [none, list]
    sorted_events,  \* Spec: the events in processing order, the terminal one last
    next_event,     \* Spec: index in sorted_events of the coming loop iteration
    cur_state,      \* Spec: initial state of the coming segment
    prev_time_point_discretized,    \* Spec: start time of the coming segment
    prev_time_point, \* SpecRobust: the time of the event that closed the last segment
    data,           \* Spec: the rows stitched so far
    sample_times,   \* Spec: for each row of data, the time get_states sampled it at
    segments,       \* Spec: the get_states calls made so far, with their results
    exc,            \* Spec: the exception that ended the call, "" when none
    frame           \* Spec: the DataFrame returned, [Time, columns]

parseVars == <<call, args, other_args, text, parsed, printed, reparsed>>

mechVars == <<intermediates, other_mech, equal>>

rateVars == <<mech, rates, odes, step_index, step_odes, of_species, species_ode,
              mech_before, mechVars>>

simVars == <<initial_state, events, sorted_events, next_event, cur_state,
             prev_time_point_discretized, prev_time_point, data, sample_times, segments,
             exc, frame>>

vars == <<pc, parseVars, rateVars, simVars>>

----------------------------------------------------------------------------
(* Python numbers *)

RECURSIVE Gcd(_, _)
Gcd(a, b) == IF b = 0 THEN a ELSE Gcd(b, a % b)

Abs(x) == IF x < 0 THEN -x ELSE x

\* an int literal
PyInt(n) == [n |-> n, d |-> 1, f |-> FALSE]

\* a / b of two ints, b # 0: always a float
PyTrueDiv(a, b) ==
    LET g == Gcd(Abs(a), Abs(b))
    IN  [n |-> a \div g, d |-> b \div g, f |-> TRUE]

\* x + y: a float as soon as one operand is
PyAdd(x, y) ==
    LET num == x.n * y.d + y.n * x.d
        den == x.d * y.d
        g   == Gcd(Abs(num), den)
    IN  [n |-> num \div g, d |-> den \div g, f |-> x.f \/ y.f]

\* x - y
PySub(x, y) == PyAdd(x, [y EXCEPT !.n = -y.n])

\* abs(x) < y
PyAbsLess(x, y) == Abs(x.n) * y.d < y.n * x.d

\* x == y compares values: 2 == 2.0
PyNumEq(x, y) == x.n * y.d = y.n * x.d

----------------------------------------------------------------------------
(* Python str *)

IsDigit(c) == c \in {"0", "1", "2", "3", "4", "5", "6", "7", "8", "9"}

DigitVal(c) ==
    CASE c = "0" -> 0 [] c = "1" -> 1 [] c = "2" -> 2 [] c = "3" -> 3
      [] c = "4" -> 4 [] c = "5" -> 5 [] c = "6" -> 6 [] c = "7" -> 7
      [] c = "8" -> 8 [] c = "9" -> 9

DigitChar(v) == <<"0", "1", "2", "3", "4", "5", "6", "7", "8", "9">>[v + 1]

\* int(s) of a non-empty string of digits
RECURSIVE StrToInt(_)
StrToInt(s) ==
    IF Len(s) = 0 THEN 0
    ELSE 10 * StrToInt(SubSeq(s, 1, Len(s) - 1)) + DigitVal(s[Len(s)])

\* str(n) of an int n >= 0
RECURSIVE IntToStr(_)
IntToStr(n) ==
    IF n < 10 THEN <<DigitChar(n)>>
    ELSE IntToStr(n \div 10) \o <<DigitChar(n % 10)>>

\* digits of the fraction r/d, 0 <= r < d, d in {1, 2, 4}: repr prints the
\* shortest decimal expansion, which for these values is the exact one
RECURSIVE FracDigits(_, _)
FracDigits(r, d) ==
    IF r = 0 THEN <<>>
    ELSE <<DigitChar((10 * r) \div d)>> \o FracDigits((10 * r) % d, d)

\* str(x) of a number x >= 0: "2" for an int, "2.0" and "0.5" for floats
NumToStr(x) ==
    IF ~x.f THEN IntToStr(x.n)
    ELSE LET ip == x.n \div x.d
             fr == FracDigits(x.n % x.d, x.d)
         IN  IntToStr(ip) \o <<".">> \o (IF fr = <<>> THEN <<"0">> ELSE fr)

\* sub in s
Contains(s, sub) ==
    \E i \in 1..(Len(s) - Len(sub) + 1) : SubSeq(s, i, i + Len(sub) - 1) = sub

\* s.find(sub) + 1, 0 when absent
Find(s, sub) ==
    IF Contains(s, sub)
    THEN CHOOSE i \in 1..(Len(s) - Len(sub) + 1) :
            /\ SubSeq(s, i, i + Len(sub) - 1) = sub
            /\ \A j \in 1..(i - 1) : SubSeq(s, j, j + Len(sub) - 1) # sub
    ELSE 0

\* s.split(sep)
RECURSIVE Split(_, _)
Split(s, sep) ==
    LET i == Find(s, sep)
    IN  IF i = 0 THEN <<s>>
        ELSE <<SubSeq(s, 1, i - 1)>> \o Split(SubSeq(s, i + Len(sep), Len(s)), sep)

\* s.replace(c, "") for a one-character c
Remove(s, c) == SelectSeq(s, LAMBDA x : x # c)

\* sep.join(parts)
RECURSIVE Join(_, _)
Join(parts, sep) ==
    IF Len(parts) = 0 THEN <<>>
    ELSE IF Len(parts) = 1 THEN parts[1]
    ELSE parts[1] \o sep \o Join(Tail(parts), sep)

----------------------------------------------------------------------------
(* Python dict: insertion-ordered [k, v] pairs *)

DictKeys(dct) == {dct[i].k : i \in 1..Len(dct)}

DictHas(dct, key) == \E i \in 1..Len(dct) : dct[i].k = key

DictGet(dct, key) == dct[CHOOSE i \in 1..Len(dct) : dct[i].k = key].v

\* dct[key] = val: an existing key keeps its position
DictSet(dct, key, val) ==
    IF DictHas(dct, key)
    THEN [i \in 1..Len(dct) |-> IF dct[i].k = key THEN [k |-> key, v |-> val] ELSE dct[i]]
    ELSE Append(dct, [k |-> key, v |-> val])

\* d1 == d2 of two coefficient dicts: same keys, equal values, any order
DictEq(d1, d2) ==
    /\ DictKeys(d1) = DictKeys(d2)
    /\ \A key \in DictKeys(d1) : PyNumEq(DictGet(d1, key), DictGet(d2, key))

----------------------------------------------------------------------------
(* SimpleStep *)

Ok(v) == [exc |-> "", val |-> v]

\* the species is a liquid or a solid
IsLiquidSolid(thing) ==
    Contains(thing, <<"(", "l", ")">>) \/ Contains(thing, <<"(", "s", ")">>)

\* the loops of __init__ over one side: the dict of the mass-action species
RECURSIVE MassActionSide(_)
MassActionSide(items) ==
    IF Len(items) = 0 THEN <<>>
    ELSE LET acc  == MassActionSide(SubSeq(items, 1, Len(items) - 1))
             last == items[Len(items)]
         IN  IF IsLiquidSolid(last.k) THEN acc
             ELSE IF DictHas(acc, last.k)
                  THEN DictSet(acc, last.k, PyAdd(DictGet(acc, last.k), last.v))
                  ELSE DictSet(acc, last.k, last.v)

\* the loops of __init__ over one side: the dict of the liquids and solids
RECURSIVE LiquidSolidSide(_)
LiquidSolidSide(items) ==
    IF Len(items) = 0 THEN <<>>
    ELSE LET acc  == LiquidSolidSide(SubSeq(items, 1, Len(items) - 1))
             last == items[Len(items)]
         IN  IF IsLiquidSolid(last.k) THEN DictSet(acc, last.k, last.v) ELSE acc

\* SimpleStep(reactants, products)
SimpleStep(reactants, products) ==
    [ reactants              |-> MassActionSide(reactants),
      liquid_solid_reactants |-> LiquidSolidSide(reactants),
      products               |-> MassActionSide(products),
      liquid_solid_products  |-> LiquidSolidSide(products),
      kf                     |-> 0,
      kr                     |-> 0 ]

NoStep == SimpleStep(<<>>, <<>>)

Raise(e) == [exc |-> e, val |-> NoStep]

\* step.set_rate_constant(kf, kr)
set_rate_constant(step, kf, kr) == [step EXCEPT !.kf = kf, !.kr = kr]

\* the local dict_addition of __add__
RECURSIVE dict_addition(_, _)
dict_addition(dict_from, add_to) ==
    IF Len(add_to) = 0 THEN dict_from
    ELSE LET acc   == dict_addition(dict_from, SubSeq(add_to, 1, Len(add_to) - 1))
             thing == add_to[Len(add_to)].k
             base  == IF DictHas(dict_from, thing) THEN DictGet(dict_from, thing) ELSE PyInt(0)
         IN  DictSet(acc, thing, PyAdd(base, add_to[Len(add_to)].v))

\* self + other
SimpleStepAdd(self, other) ==
    SimpleStep(dict_addition(self.reactants, other.reactants),
               dict_addition(self.products, other.products))

\* sum(steps): 0 + steps[1] is steps[1].__radd__(0), which is steps[1] itself
RECURSIVE SimpleStepSum(_)
SimpleStepSum(steps) ==
    IF Len(steps) = 1 THEN steps[1]
    ELSE SimpleStepAdd(SimpleStepSum(SubSeq(steps, 1, Len(steps) - 1)), steps[Len(steps)])

\* self == other
SimpleStepEq(self, other) ==
    DictEq(self.reactants, other.reactants) /\ DictEq(self.products, other.products)

\* str(step)
SideToStr(dct) ==
    Join([i \in 1..Len(dct) |-> NumToStr(dct[i].v) \o dct[i].k], <<" ", "+", " ">>)

SimpleStepStr(step) ==
    SideToStr(step.reactants) \o <<" ", "-", ">", " ">> \o SideToStr(step.products)

----------------------------------------------------------------------------
(* SimpleStep.str_to_step *)

\* length of the run of digits s starts with
RECURSIVE DigitRun(_)
DigitRun(s) ==
    IF Len(s) = 0 \/ ~IsDigit(s[1]) THEN 0 ELSE 1 + DigitRun(Tail(s))

\* re.match(r"^[0-9]+\/[0-9]+|^[0-9]+", s).span()[1], 0 when there is no match
CoefficientSpan(s) ==
    LET n1 == DigitRun(s)
        n2 == IF n1 > 0 /\ Len(s) > n1 /\ s[n1 + 1] = "/"
              THEN DigitRun(SubSeq(s, n1 + 2, Len(s))) ELSE 0
    IN  IF n2 > 0 THEN n1 + 1 + n2 ELSE n1

\* the last lines of str_to_step: one term, "2A", "1/2A" or "A"
TermToStep(str_step0, flag) ==
    LET span     == CoefficientSpan(str_step0)
        cutoff   == IF span > 0 THEN span ELSE 1
        str_step == IF span > 0 THEN str_step0 ELSE <<"1">> \o str_step0
        prefix   == SubSeq(str_step, 1, cutoff)
        name     == SubSeq(str_step, cutoff + 1, Len(str_step))
        parts    == Split(prefix, <<"/">>)
    IN  IF Contains(str_step, <<"/">>)
        THEN IF Len(parts) < 2 THEN Raise("IndexError")
             ELSE IF StrToInt(parts[2]) = 0 THEN Raise("ZeroDivisionError")
             ELSE LET coef == PyTrueDiv(StrToInt(parts[1]), StrToInt(parts[2]))
                  IN  IF flag = "True"
                      THEN Ok(SimpleStep(<<[k |-> name, v |-> coef]>>, <<>>))
                      ELSE Ok(SimpleStep(<<>>, <<[k |-> name, v |-> coef]>>))
        ELSE LET coef == PyInt(StrToInt(prefix))
             IN  IF flag = "True"
                 THEN Ok(SimpleStep(<<[k |-> name, v |-> coef]>>, <<>>))
                 ELSE Ok(SimpleStep(<<>>, <<[k |-> name, v |-> coef]>>))

\* the first exception among results, "" when there is none
FirstExc(results) ==
    IF \E i \in 1..Len(results) : results[i].exc # ""
    THEN results[CHOOSE i \in 1..Len(results) :
                    /\ results[i].exc # ""
                    /\ \A j \in 1..(i - 1) : results[j].exc = ""].exc
    ELSE ""

\* the "+" branch: the components are terms (a "->" was split off before)
SideToStep(str_step, flag) ==
    LET comps   == Split(str_step, <<"+">>)
        results == [i \in 1..Len(comps) |-> TermToStep(comps[i], flag)]
    IN  IF FirstExc(results) # "" THEN Raise(FirstExc(results))
        ELSE Ok(SimpleStepSum([i \in 1..Len(comps) |-> results[i].val]))

\* str_to_step(str_step, _optional_flag) below the "->" branch
SideOrTermToStep(str_step, flag) ==
    IF Contains(str_step, <<"+">>) THEN SideToStep(str_step, flag)
    ELSE TermToStep(str_step, flag)

\* SimpleStep.str_to_step(str_step)
str_to_step(str_step0) ==
    IF Contains(str_step0, <<"-", ">">>)
    THEN LET str_step == Remove(Remove(str_step0, "\t"), " ")
             parts    == Split(str_step, <<"-", ">">>)
         IN  IF Len(parts) # 2 THEN Raise("ValueError")
             ELSE LET reac == SideOrTermToStep(parts[1], "True")
                      prod == SideOrTermToStep(parts[2], "False")
                  IN  IF reac.exc # "" THEN reac
                      ELSE IF prod.exc # "" THEN prod
                      ELSE Ok(SimpleStepAdd(reac.val, prod.val))
    ELSE SideOrTermToStep(str_step0, "None")

----------------------------------------------------------------------------
(* DifferentialEquationModel: model_str is Python source text, kept here as  *)
(* its sequence of tokens. The coefficients and rate constants of SpecRate   *)
(* are integers, so every literal is an integer literal.                     *)

TOp(o)    == [t |-> "op",  op |-> o,  n |-> 0, name |-> <<>>]
TNum(v)   == [t |-> "num", op |-> "", n |-> v, name |-> <<>>]
TVar(key) == [t |-> "var", op |-> "", n |-> 0, name |-> key]

\* the text of f"{v}" for a number v: a negative one is "-" and a literal
NumLit(v) == IF v < 0 THEN <<TOp("-"), TNum(-v)>> ELSE <<TNum(v)>>

\* the text of f"{coef}" for an integer-valued coefficient
CoefLit(coef) == NumLit(coef.n \div coef.d)

DifferentialEquationModel(model_str) == [model_str |-> model_str]

\* DifferentialEquationModel.sum_differential_equations(list_ode)
sum_differential_equations(list_ode) ==
    DifferentialEquationModel(
        Join([i \in 1..Len(list_ode) |-> list_ode[i].model_str], <<TOp("+")>>))

RECURSIVE Pow(_, _)
Pow(b, e) == IF e <= 0 THEN 1 ELSE b * Pow(b, e - 1)

(* Python's expression grammar, as far as model_str uses it:                 *)
(*   arith  := term (('+' | '-') term)*                                      *)
(*   term   := factor ('*' factor)*                                          *)
(*   factor := ('+' | '-') factor | power                                    *)
(*   power  := atom ['**' factor]                                            *)
(*   atom   := NUMBER | kwargs["name"]                                       *)
(* Each operator returns [err, val, pos]: the value read from position pos   *)
(* on, and the position after it. With bound = FALSE the names are not       *)
(* looked up (compilation); with bound = TRUE a missing name is a KeyError.  *)

EvalErr(e) == [err |-> e, val |-> 0, pos |-> 0]

IsOpAt(toks, pos, o) == pos <= Len(toks) /\ toks[pos].t = "op" /\ toks[pos].op = o

EvalAtom(toks, pos, env, bound) ==
    IF pos > Len(toks) THEN EvalErr("SyntaxError")
    ELSE IF toks[pos].t = "num" THEN [err |-> "", val |-> toks[pos].n, pos |-> pos + 1]
    ELSE IF toks[pos].t = "var"
         THEN IF ~bound THEN [err |-> "", val |-> 1, pos |-> pos + 1]
              ELSE IF toks[pos].name \in DOMAIN env
                   THEN [err |-> "", val |-> env[toks[pos].name], pos |-> pos + 1]
                   ELSE EvalErr("KeyError")
    ELSE EvalErr("SyntaxError")

\* the one element of a singleton: Only({e(x) : x \in {v}}) is e(v), with v
\* computed once
Only(S) == CHOOSE x \in S : TRUE

RECURSIVE EvalFactor(_, _, _, _)
EvalFactor(toks, pos, env, bound) ==
    IF IsOpAt(toks, pos, "-") \/ IsOpAt(toks, pos, "+")
    THEN Only({ IF f.err # "" THEN f
                ELSE [f EXCEPT !.val = IF toks[pos].op = "-" THEN -f.val ELSE f.val] :
                f \in {EvalFactor(toks, pos + 1, env, bound)} })
    ELSE Only({ IF a.err # "" \/ ~IsOpAt(toks, a.pos, "**") THEN a
                ELSE Only({ IF e.err # "" THEN e
                            ELSE [e EXCEPT !.val = Pow(a.val, e.val)] :
                            e \in {EvalFactor(toks, a.pos + 1, env, bound)} }) :
                a \in {EvalAtom(toks, pos, env, bound)} })

\* the ('*' factor)* after a term read so far
RECURSIVE EvalTermRest(_, _, _, _)
EvalTermRest(toks, acc, env, bound) ==
    IF acc.err # "" \/ ~IsOpAt(toks, acc.pos, "*") THEN acc
    ELSE Only({ IF f.err # "" THEN f
                ELSE Only({ EvalTermRest(toks, next, env, bound) :
                            next \in {[f EXCEPT !.val = acc.val * f.val]} }) :
                f \in {EvalFactor(toks, acc.pos + 1, env, bound)} })

EvalTerm(toks, pos, env, bound) ==
    Only({ EvalTermRest(toks, f, env, bound) : f \in {EvalFactor(toks, pos, env, bound)} })

\* the (('+' | '-') term)* after an expression read so far
RECURSIVE EvalArithRest(_, _, _, _)
EvalArithRest(toks, acc, env, bound) ==
    IF acc.err # "" \/ ~(IsOpAt(toks, acc.pos, "+") \/ IsOpAt(toks, acc.pos, "-")) THEN acc
    ELSE Only({ IF t.err # "" THEN t
                ELSE Only({ EvalArithRest(toks, next, env, bound) :
                            next \in {[t EXCEPT !.val = IF toks[acc.pos].op = "+"
                                                        THEN acc.val + t.val
                                                        ELSE acc.val - t.val]} }) :
                t \in {EvalTerm(toks, acc.pos + 1, env, bound)} })

EvalArith(toks, env, bound) ==
    Only({ IF r.err # "" THEN r
           ELSE IF r.pos # Len(toks) + 1 THEN EvalErr("SyntaxError")
           ELSE r :
           r \in { EvalArithRest(toks, t, env, bound) : t \in {EvalTerm(toks, 1, env, bound)} } })

\* eval(f"lambda **kwargs: {model_str}") compiles
Compiles(model_str) == EvalArith(model_str, <<>>, FALSE).err = ""

\* ode.get_lambda()(**env): [err, val]
Evaluate(ode, env) ==
    IF ~Compiles(ode.model_str) THEN [err |-> "SyntaxError", val |-> 0]
    ELSE Only({ [err |-> r.err, val |-> r.val] : r \in {EvalArith(ode.model_str, env, TRUE)} })

----------------------------------------------------------------------------
(* SimpleStep.get_differential_equations *)

\* "*".join([f'kwargs["{thing}"]**{coef}' for thing, coef in side.items()])
Multiplication(side) ==
    Join([i \in 1..Len(side) |-> <<TVar(side[i].k), TOp("**")>> \o CoefLit(side[i].v)],
         <<TOp("*")>>)

\* f"-{coef}*{self.kf}*{reactant_multiplication} + {coef}*{self.kr}*{product_multiplication}"
ReactantOde(step, coef) ==
    DifferentialEquationModel(
        <<TOp("-")>> \o CoefLit(coef) \o <<TOp("*")>> \o NumLit(step.kf) \o <<TOp("*")>>
        \o Multiplication(step.reactants)
        \o <<TOp("+")>> \o CoefLit(coef) \o <<TOp("*")>> \o NumLit(step.kr) \o <<TOp("*")>>
        \o Multiplication(step.products))

\* f"{coef}*{self.kf}*{reactant_multiplication} - {self.kr}*{coef}*{product_multiplication}"
ProductOde(step, coef) ==
    DifferentialEquationModel(
        CoefLit(coef) \o <<TOp("*")>> \o NumLit(step.kf) \o <<TOp("*")>>
        \o Multiplication(step.reactants)
        \o <<TOp("-")>> \o NumLit(step.kr) \o <<TOp("*")>> \o CoefLit(coef) \o <<TOp("*")>>
        \o Multiplication(step.products))

\* out_ode after the loop over self.reactants
ReactantOdes(step) ==
    [i \in 1..Len(step.reactants) |->
        [k |-> step.reactants[i].k, v |-> ReactantOde(step, step.reactants[i].v)]]

\* out_ode after the first n items of the loop over self.products
RECURSIVE ProductOdes(_, _)
ProductOdes(step, n) ==
    IF n = 0 THEN ReactantOdes(step)
    ELSE LET acc     == ProductOdes(step, n - 1)
             thing   == step.products[n].k
             new_ode == ProductOde(step, step.products[n].v)
         IN  IF DictHas(acc, thing)
             THEN DictSet(acc, thing, sum_differential_equations(<<DictGet(acc, thing), new_ode>>))
             ELSE DictSet(acc, thing, new_ode)

\* the eval(raw_func) of the last loop: every out_raw_str must compile, and
\* out_raw_str holds the same expressions as out_ode
RawLambdasCompile(step) ==
    /\ \A i \in 1..Len(step.reactants) :
            Compiles(ReactantOde(step, step.reactants[i].v).model_str)
    /\ \A i \in 1..Len(step.products) :
            Compiles(ProductOde(step, step.products[i].v).model_str)

\* step.get_differential_equations(): [exc, val], val the dict species -> ode
get_differential_equations(step) ==
    IF RawLambdasCompile(step)
    THEN [exc |-> "", val |-> ProductOdes(step, Len(step.products))]
    ELSE [exc |-> "SyntaxError", val |-> <<>>]

\* get_differential_equation_of with the product equation replacing, not
\* joining, the reactant equation
ProductEquationReplaces(step, species) ==
    IF DictHas(step.products, species)
    THEN ProductOde(step, DictGet(step.products, species))
    ELSE IF DictHas(step.reactants, species)
    THEN sum_differential_equations(
            <<DifferentialEquationModel(<<>>),
              ReactantOde(step, DictGet(step.reactants, species))>>)
    ELSE DifferentialEquationModel(<<>>)

\* step.get_differential_equation_of(species): ode starts as the model of ""
get_differential_equation_of(step, species) ==
    LET ode0 == DifferentialEquationModel(<<>>)
        ode1 == IF DictHas(step.reactants, species)
                THEN sum_differential_equations(
                        <<ode0, ReactantOde(step, DictGet(step.reactants, species))>>)
                ELSE ode0
    IN  IF DictHas(step.products, species)
        THEN sum_differential_equations(
                <<ode1, ProductOde(step, DictGet(step.products, species))>>)
        ELSE ode1

----------------------------------------------------------------------------
(* ReactionMechanism *)

\* out_ode_prev after the items of one step's dict, in order
RECURSIVE GroupItems(_, _)
GroupItems(out_ode_prev, items) ==
    IF Len(items) = 0 THEN out_ode_prev
    ELSE LET acc  == GroupItems(out_ode_prev, SubSeq(items, 1, Len(items) - 1))
             last == items[Len(items)]
         IN  IF DictHas(acc, last.k)
             THEN DictSet(acc, last.k, Append(DictGet(acc, last.k), last.v))
             ELSE DictSet(acc, last.k, <<last.v>>)

\* out_ode_prev after the first n steps (no step raised)
RECURSIVE GroupSteps(_, _)
GroupSteps(steps, n) ==
    IF n = 0 THEN <<>>
    ELSE GroupItems(GroupSteps(steps, n - 1), get_differential_equations(steps[n]).val)

\* mechanism.get_differential_equations(): [exc, val]
mechanism_get_differential_equations(steps) ==
    IF \E i \in 1..Len(steps) : get_differential_equations(steps[i]).exc # ""
    THEN [exc |-> "SyntaxError", val |-> <<>>]
    ELSE LET out_ode_prev == GroupSteps(steps, Len(steps))
         IN  [exc |-> "",
              val |-> [i \in 1..Len(out_ode_prev) |->
                        [k |-> out_ode_prev[i].k,
                         v |-> sum_differential_equations(out_ode_prev[i].v)]]]

\* new_rate.get(key, 0): the keyword argument of set_rate_constant, or its default
RateOf(new_rate, key) == IF DictHas(new_rate, key) THEN DictGet(new_rate, key) ELSE 0

\* set_rate_constants leaving a rate constant alone when its key is missing
SetGivenRateConstantsOnly(steps, new_rates) ==
    [i \in 1..Len(steps) |->
        IF i <= Len(new_rates)
        THEN set_rate_constant(steps[i],
                               IF DictHas(new_rates[i], "kf") THEN DictGet(new_rates[i], "kf")
                               ELSE steps[i].kf,
                               IF DictHas(new_rates[i], "kr") THEN DictGet(new_rates[i], "kr")
                               ELSE steps[i].kr)
        ELSE steps[i]]

\* mechanism.set_rate_constants(rates): zip stops at the shorter of the two
set_rate_constants(steps, new_rates) ==
    [i \in 1..Len(steps) |->
        IF i <= Len(new_rates)
        THEN set_rate_constant(steps[i], RateOf(new_rates[i], "kf"), RateOf(new_rates[i], "kr"))
        ELSE steps[i]]

\* epsilon = 0.0001
epsilon == [n |-> 1, d |-> 10000, f |-> TRUE]

\* net_species after the loop over step.reactants.items()
RECURSIVE NetReactants(_, _)
NetReactants(net_species, items) ==
    IF Len(items) = 0 THEN net_species
    ELSE Only({ DictSet(acc, items[Len(items)].k,
                        PyAdd(IF DictHas(acc, items[Len(items)].k)
                              THEN DictGet(acc, items[Len(items)].k) ELSE PyInt(0),
                              items[Len(items)].v)) :
                acc \in {NetReactants(net_species, SubSeq(items, 1, Len(items) - 1))} })

\* net_species after the loop over step.products.items()
RECURSIVE NetProducts(_, _)
NetProducts(net_species, items) ==
    IF Len(items) = 0 THEN net_species
    ELSE Only({ DictSet(acc, items[Len(items)].k,
                        PySub(IF DictHas(acc, items[Len(items)].k)
                              THEN DictGet(acc, items[Len(items)].k) ELSE PyInt(0),
                              items[Len(items)].v)) :
                acc \in {NetProducts(net_species, SubSeq(items, 1, Len(items) - 1))} })

\* net_species after the first n steps
RECURSIVE NetSpecies(_, _)
NetSpecies(steps, n) ==
    IF n = 0 THEN <<>>
    ELSE Only({ NetProducts(after_reactants, steps[n].products) :
                after_reactants \in
                    { NetReactants(before, steps[n].reactants) :
                        before \in {NetSpecies(steps, n - 1)} } })

\* get_intermediates keeping the species whose net coefficient is 0 exactly
ExactlyZeroNet(steps) ==
    LET net_species == NetSpecies(steps, Len(steps))
        kept        == SelectSeq(net_species, LAMBDA item : item.v.n = 0)
    IN  [i \in 1..Len(kept) |-> kept[i].k]

\* mechanism.get_intermediates()
get_intermediates(steps) ==
    LET net_species == NetSpecies(steps, Len(steps))
        kept        == SelectSeq(net_species, LAMBDA item : PyAbsLess(item.v, epsilon))
    IN  [i \in 1..Len(kept) |-> kept[i].k]

\* mechanism == other with the rate constants compared as well
EqWithRateConstants(steps, other) ==
    /\ Len(other) = Len(steps)
    /\ \A i \in 1..Len(steps) :
            /\ SimpleStepEq(other[i], steps[i])
            /\ other[i].kf = steps[i].kf
            /\ other[i].kr = steps[i].kr

\* mechanism == other, other a ReactionMechanism: the number of True in the
\* list of other_step == cur_step is len(self.steps)
ReactionMechanismEq(steps, other) ==
    IF Len(other) = Len(steps)
    THEN Cardinality({i \in 1..Len(steps) : SimpleStepEq(other[i], steps[i])}) = Len(steps)
    ELSE FALSE

----------------------------------------------------------------------------
(* The variables of a specification that is not running *)

NoOdes == [exc |-> "", val |-> <<>>]

RateIdle ==
    /\ mech = <<>>
    /\ rates = <<>>
    /\ odes = NoOdes
    /\ step_index = 0
    /\ step_odes = NoOdes
    /\ of_species = <<>>
    /\ species_ode = DifferentialEquationModel(<<>>)
    /\ mech_before = <<>>
    /\ intermediates = <<>>
    /\ other_mech = <<>>
    /\ equal = FALSE

NoFrame == [Time |-> <<>>, columns |-> <<>>]

\* events = None
NoEvents == [none |-> TRUE, list |-> <<>>]

SimIdle ==
    /\ initial_state = <<>>
    /\ events = NoEvents
    /\ sorted_events = <<>>
    /\ next_event = 0
    /\ cur_state = <<>>
    /\ prev_time_point_discretized = 0
    /\ prev_time_point = 0
    /\ data = <<>>
    /\ sample_times = <<>>
    /\ segments = <<>>
    /\ exc = ""
    /\ frame = NoFrame

----------------------------------------------------------------------------
(* SpecParse: the inputs *)

\* terms on the left of an equation text, and pairs in a constructor dict
MaxTerms == 2

CoefTexts ==
    { <<>>, <<"2">>, <<"1", "2">>, <<"1", "/", "2">>, <<"4", "/", "2">> }

LeftNames == { <<"A">>, <<"B", "(", "s", ")">> }

LeftTerms == { c \o n : c \in CoefTexts, n \in LeftNames }

LeftSides ==
    { Join(ts, <<"+">>) : ts \in UNION { [1..k -> LeftTerms] : k \in 0..MaxTerms } }

RightSides ==
    { <<"B">>, <<"2", "A">>, <<"3", "/", "4", "B">>, <<"C", "(", "l", ")">>, <<>> }

\* "a+b" written "a +\tb"
Spaced(side) == Join(Split(side, <<"+">>), <<" ", "+", "\t">>)

InputTexts ==
    \* one "->"
    { l \o <<"-", ">">> \o r : l \in LeftSides, r \in RightSides }
    \* the same with blanks and tabs
    \cup { Spaced(l) \o <<" ", "-", ">", " ", " ">> \o <<"2", " ", "B">> : l \in LeftSides }
    \* no "->"
    \cup (LeftSides \ {<<>>})
    \* two "->"
    \cup { l \o <<"-", ">", "B", "-", ">", "C">> : l \in LeftSides }
    \* a zero denominator, a "/" in the name
    \cup { <<"1", "/", "0", "A", "-", ">", "B">>, <<"A", "/", "B", "-", ">", "C">>,
           <<"2", "A", "/", "B", "-", ">", "C">> }

ArgNames == { <<"A">>, <<"B">>, <<"C", "(", "s", ")">> }

ArgCoefs == { PyInt(1), PyTrueDiv(1, 2) }

\* the dicts handed to SimpleStep(...): distinct keys
ArgDicts ==
    { dct \in UNION { [1..k -> [k : ArgNames, v : ArgCoefs]] : k \in 0..MaxTerms } :
        \A i, j \in 1..Len(dct) : dct[i].k = dct[j].k => i = j }

NoArgs == [reactants |-> <<>>, products |-> <<>>]

----------------------------------------------------------------------------
(* SpecParse: the calls *)

InitParse ==
    /\ pc = "start"
    /\ call = ""
    /\ args = NoArgs
    /\ other_args = NoArgs
    /\ text = <<>>
    /\ parsed = Ok(NoStep)
    /\ printed = <<>>
    /\ reparsed = Ok(NoStep)
    /\ RateIdle
    /\ SimIdle

\* parsed = SimpleStep.str_to_step(t)
StrToStep ==
    /\ pc = "start"
    /\ \E t \in InputTexts :
        /\ text' = t
        /\ parsed' = str_to_step(t)
    /\ call' = "str_to_step"
    /\ pc' = "built"
    /\ UNCHANGED <<args, other_args, printed, reparsed>>
    /\ UNCHANGED rateVars
    /\ UNCHANGED simVars

\* parsed = SimpleStep(reactants, products)
Construct ==
    /\ pc = "start"
    /\ \E r \in ArgDicts, p \in ArgDicts :
        /\ args' = [reactants |-> r, products |-> p]
        /\ parsed' = Ok(SimpleStep(r, p))
    /\ call' = "SimpleStep"
    /\ pc' = "built"
    /\ UNCHANGED <<other_args, text, printed, reparsed>>
    /\ UNCHANGED rateVars
    /\ UNCHANGED simVars

\* parsed = SimpleStep(...) + SimpleStep(...), the operands sharing a role
Add ==
    /\ pc = "start"
    /\ \E a \in ArgDicts, b \in ArgDicts, role \in {"reactants", "products"} :
        LET left  == IF role = "reactants" THEN [reactants |-> a, products |-> <<>>]
                          ELSE [reactants |-> <<>>, products |-> a]
            right == IF role = "reactants" THEN [reactants |-> b, products |-> <<>>]
                          ELSE [reactants |-> <<>>, products |-> b]
        IN  /\ args' = left
            /\ other_args' = right
            /\ parsed' = Ok(SimpleStepAdd(SimpleStep(left.reactants, left.products),
                                          SimpleStep(right.reactants, right.products)))
    /\ call' = "__add__"
    /\ pc' = "built"
    /\ UNCHANGED <<text, printed, reparsed>>
    /\ UNCHANGED rateVars
    /\ UNCHANGED simVars

\* printed = str(parsed)
Str ==
    /\ pc = "built"
    /\ parsed.exc = ""
    /\ printed' = SimpleStepStr(parsed.val)
    /\ pc' = "printed"
    /\ UNCHANGED <<call, args, other_args, text, parsed, reparsed>>
    /\ UNCHANGED rateVars
    /\ UNCHANGED simVars

\* reparsed = SimpleStep.str_to_step(printed)
Reparse ==
    /\ pc = "printed"
    /\ reparsed' = str_to_step(printed)
    /\ pc' = "reparsed"
    /\ UNCHANGED <<call, args, other_args, text, parsed, printed>>
    /\ UNCHANGED rateVars
    /\ UNCHANGED simVars

NextParse == StrToStep \/ Construct \/ Add \/ Str \/ Reparse

SpecParse == InitParse /\ [][NextParse]_vars

----------------------------------------------------------------------------
(* SpecParse: what an equation text is, by the grammar                       *)
(*   step := side '->' side     side := term ('+' term)*                     *)
(*   term := [coefficient] speciesName                                       *)
(*   coefficient := integer | integer '/' integer                            *)

Stripped(t) == Remove(Remove(t, "\t"), " ")

IsInteger(c) == Len(c) > 0 /\ \A i \in 1..Len(c) : IsDigit(c[i])

IsCoefficient(c) ==
    \/ Len(c) = 0
    \/ IsInteger(c)
    \/ \E i \in 2..(Len(c) - 1) :
        /\ c[i] = "/"
        /\ IsInteger(SubSeq(c, 1, i - 1))
        /\ IsInteger(SubSeq(c, i + 1, Len(c)))
        /\ StrToInt(SubSeq(c, i + 1, Len(c))) # 0

IsSpeciesName(n) ==
    /\ Len(n) > 0
    /\ ~IsDigit(n[1])
    /\ \A i \in 1..Len(n) : n[i] \notin {"+", "/", ">"}

IsTerm(t) ==
    \E i \in 0..Len(t) :
        IsCoefficient(SubSeq(t, 1, i)) /\ IsSpeciesName(SubSeq(t, i + 1, Len(t)))

IsSide(side) ==
    LET terms == Split(side, <<"+">>)
    IN  \A i \in 1..Len(terms) : IsTerm(terms[i])

\* the sides of t around its "->"s
SidesOf(t) == Split(Stripped(t), <<"-", ">">>)

IsEquationText(t) ==
    /\ Len(SidesOf(t)) = 2
    /\ IsSide(SidesOf(t)[1])
    /\ IsSide(SidesOf(t)[2])

\* missing "->", more than one "->", or an empty side
IsMalformed(t) ==
    \/ Len(SidesOf(t)) # 2
    \/ \E i \in 1..Len(SidesOf(t)) : Len(SidesOf(t)[i]) = 0

HasPhaseMarker(t) == IsLiquidSolid(t)

----------------------------------------------------------------------------
(* SpecParse: claims *)

\* C8 (as claimed): parsing round trip. For every valid equation text s,
\* str_to_step(str(str_to_step(s))) succeeds and equals str_to_step(s) under
\* stoichiometry-only equality. Stated for texts without liquids and solids
\* (those are C9's), so that what fails is the printing of the coefficients.
C8_RoundTrip ==
    (/\ pc = "reparsed"
     /\ call = "str_to_step"
     /\ IsEquationText(text)
     /\ ~HasPhaseMarker(text))
    => /\ reparsed.exc = ""
       /\ SimpleStepEq(reparsed.val, parsed.val)

\* C9 (as claimed): a liquid or solid species is in neither mass-action dict
\* and is recorded in liquid_solid_reactants / liquid_solid_products, by
\* SimpleStep(...) and by str_to_step alike.
C9_LiquidSolidRecorded ==
    (pc = "built" /\ parsed.exc = "")
    => /\ \A key \in DictKeys(parsed.val.reactants) \cup DictKeys(parsed.val.products) :
            ~IsLiquidSolid(key)
       /\ call = "SimpleStep" =>
            /\ \A i \in 1..Len(args.reactants) :
                IsLiquidSolid(args.reactants[i].k) =>
                    /\ DictHas(parsed.val.liquid_solid_reactants, args.reactants[i].k)
                    /\ DictGet(parsed.val.liquid_solid_reactants, args.reactants[i].k)
                         = args.reactants[i].v
            /\ \A i \in 1..Len(args.products) :
                IsLiquidSolid(args.products[i].k) =>
                    /\ DictHas(parsed.val.liquid_solid_products, args.products[i].k)
                    /\ DictGet(parsed.val.liquid_solid_products, args.products[i].k)
                         = args.products[i].v
       /\ (call = "str_to_step" /\ IsEquationText(text)) =>
            /\ HasPhaseMarker(SidesOf(text)[1]) =>
                 \E key \in DictKeys(parsed.val.liquid_solid_reactants) : IsLiquidSolid(key)
            /\ HasPhaseMarker(SidesOf(text)[2]) =>
                 \E key \in DictKeys(parsed.val.liquid_solid_products) : IsLiquidSolid(key)

\* C10 (as claimed): a malformed equation text (no "->", more than one "->",
\* an empty side) makes str_to_step raise; no SimpleStep is returned.
C10_MalformedRaises ==
    (pc = "built" /\ call = "str_to_step" /\ IsMalformed(text))
    => parsed.exc # ""

\* digits "/" digits
IsFractionText(c) ==
    \E i \in 2..(Len(c) - 1) :
        c[i] = "/" /\ IsInteger(SubSeq(c, 1, i - 1)) /\ IsInteger(SubSeq(c, i + 1, Len(c)))

\* the leading integer or integer/integer fraction of a term, <<>> when the
\* term has no leading digit
CoefficientTextOf(t) ==
    LET spans == {i \in 0..Len(t) :
                    i = 0 \/ IsInteger(SubSeq(t, 1, i)) \/ IsFractionText(SubSeq(t, 1, i))}
    IN  SubSeq(t, 1, CHOOSE i \in spans : \A j \in spans : j <= i)

\* the remaining substring
SpeciesNameOf(t) == SubSeq(t, Len(CoefficientTextOf(t)) + 1, Len(t))

\* the number a coefficient text stands for: 1 when there is none, the exact
\* quotient for a fraction
CoefficientValue(c) ==
    IF c = <<>> THEN PyInt(1)
    ELSE IF IsInteger(c) THEN PyInt(StrToInt(c))
    ELSE LET i == CHOOSE i \in 1..Len(c) : c[i] = "/"
         IN  PyTrueDiv(StrToInt(SubSeq(c, 1, i - 1)), StrToInt(SubSeq(c, i + 1, Len(c))))

\* a name the equation syntax accepts: any token without "+" and "->" that
\* does not start like a coefficient; liquids and solids are left to C9
IsAcceptedName(n) ==
    /\ Len(n) > 0
    /\ ~IsDigit(n[1])
    /\ \A i \in 1..Len(n) : n[i] \notin {"+", ">"}
    /\ ~IsLiquidSolid(n)

IsAcceptedTerm(t) ==
    /\ IsAcceptedName(SpeciesNameOf(t))
    /\ IsFractionText(CoefficientTextOf(t)) => CoefficientValue(CoefficientTextOf(t)).d # 0

\* the terms of a side are accepted and name distinct species (a repeated
\* species is C13's)
IsAcceptedSide(side) ==
    LET terms == Split(side, <<"+">>)
    IN  /\ Len(side) > 0
        /\ \A i \in 1..Len(terms) : IsAcceptedTerm(terms[i])
        /\ \A i, j \in 1..Len(terms) :
                SpeciesNameOf(terms[i]) = SpeciesNameOf(terms[j]) => i = j

IsAcceptedEquation(t) ==
    /\ Len(SidesOf(t)) = 2
    /\ IsAcceptedSide(SidesOf(t)[1])
    /\ IsAcceptedSide(SidesOf(t)[2])

\* dct gives every term of the side its coefficient, and has no other key
SideParsedAs(side, dct) ==
    LET terms == Split(side, <<"+">>)
    IN  /\ DictKeys(dct) = {SpeciesNameOf(terms[i]) : i \in 1..Len(terms)}
        /\ \A i \in 1..Len(terms) :
                PyNumEq(DictGet(dct, SpeciesNameOf(terms[i])),
                        CoefficientValue(CoefficientTextOf(terms[i])))

\* C12 (as claimed): for every term of a valid equation str_to_step assigns
\* the coefficient given by the leading integer or integer/integer fraction,
\* 1 when the term has no leading digit, to the species named by the rest of
\* the term, whatever that accepted name is; blanks and tabs do not change
\* the result.
C12_TermCoefficients ==
    (pc = "built" /\ call = "str_to_step" /\ IsAcceptedEquation(text)) =>
        /\ parsed.exc = ""
        /\ SideParsedAs(SidesOf(text)[1], parsed.val.reactants)
        /\ SideParsedAs(SidesOf(text)[2], parsed.val.products)
        /\ str_to_step(Stripped(text)) = parsed

\* the stoichiometric map of one role of a step: the mass-action species and
\* the liquids and solids
StoichiometricMap(step, role) ==
    IF role = "reactants" THEN step.reactants \o step.liquid_solid_reactants
    ELSE step.products \o step.liquid_solid_products

KeyCount(dct, name) == Cardinality({i \in 1..Len(dct) : dct[i].k = name})

RECURSIVE SumOfCoefficients(_)
SumOfCoefficients(coefs) ==
    IF Len(coefs) = 1 THEN coefs[1]
    ELSE PyAdd(SumOfCoefficients(SubSeq(coefs, 1, Len(coefs) - 1)), coefs[Len(coefs)])

\* the coefficients of the terms of a side that name the species, in order
OccurrencesOf(side, name) ==
    LET terms  == Split(side, <<"+">>)
        naming == SelectSeq(terms, LAMBDA t : SpeciesNameOf(t) = name)
    IN  [i \in 1..Len(naming) |-> CoefficientValue(CoefficientTextOf(naming[i]))]

\* dct has one key for every species the side repeats, with the sum of its
\* occurrences
SideSummed(side, dct) ==
    LET terms == Split(side, <<"+">>)
    IN  \A i \in 1..Len(terms) : Len(OccurrencesOf(side, SpeciesNameOf(terms[i]))) > 1 =>
            /\ KeyCount(dct, SpeciesNameOf(terms[i])) = 1
            /\ PyNumEq(DictGet(dct, SpeciesNameOf(terms[i])),
                       SumOfCoefficients(OccurrencesOf(side, SpeciesNameOf(terms[i]))))

\* dct has one key for every species of the operands a and b: the sum for a
\* shared species, the operand's coefficient for the others
OperandsSummed(a, b, dct) ==
    \A name \in DictKeys(a) \cup DictKeys(b) :
        /\ KeyCount(dct, name) = 1
        /\ PyNumEq(DictGet(dct, name),
                   IF DictHas(a, name) /\ DictHas(b, name)
                   THEN PyAdd(DictGet(a, name), DictGet(b, name))
                   ELSE IF DictHas(a, name) THEN DictGet(a, name) ELSE DictGet(b, name))

\* C13 (as claimed): a species repeated on one side of an equation, or shared
\* in the same role by the operands of self + other, has one key in the
\* stoichiometric map of the result, with the sum of the occurrences; a
\* species of one operand only keeps its coefficient.
C13_RepeatedSpeciesSum ==
    /\ (pc = "built" /\ call = "str_to_step" /\ IsEquationText(text)) =>
        /\ parsed.exc = ""
        /\ SideSummed(SidesOf(text)[1], StoichiometricMap(parsed.val, "reactants"))
        /\ SideSummed(SidesOf(text)[2], StoichiometricMap(parsed.val, "products"))
    /\ (pc = "built" /\ call = "__add__") =>
        /\ parsed.exc = ""
        /\ OperandsSummed(args.reactants, other_args.reactants,
                          StoichiometricMap(parsed.val, "reactants"))
        /\ OperandsSummed(args.products, other_args.products,
                          StoichiometricMap(parsed.val, "products"))

----------------------------------------------------------------------------
(* SpecRate: the inputs *)

\* steps of a mechanism
MaxSteps == 2

\* concentrations are 1..MaxConc
MaxConc == 2

Item(name, c) == [k |-> name, v |-> PyInt(c)]

ReactantSides ==
    { <<Item(<<"A">>, 1)>>,
      <<Item(<<"A">>, 2), Item(<<"B">>, 1)>>,
      <<Item(<<"X", "(", "s", ")">>, 1)>> }

ProductSides ==
    { <<Item(<<"B">>, 1)>>,
      <<Item(<<"A">>, 1), Item(<<"C">>, 2)>>,
      <<Item(<<"Y", "(", "l", ")">>, 1)>> }

Steps == { SimpleStep(r, p) : r \in ReactantSides, p \in ProductSides }

Mechanisms == UNION { [1..k -> Steps] : k \in 1..MaxSteps }

\* the keyword dicts of set_rate_constants: none, kf only, both
RateEntries ==
    { <<>>,
      <<[k |-> "kf", v |-> 2]>>,
      <<[k |-> "kf", v |-> 1], [k |-> "kr", v |-> 3]>> }

RateLists == UNION { [1..k -> RateEntries] : k \in 0..MaxSteps }

\* the bindings **kwargs of a lambda
RateNames == { <<"A">>, <<"B">>, <<"C">> }

Envs == [RateNames -> 1..MaxConc]

----------------------------------------------------------------------------
(* SpecRate: the calls *)

ParseIdle ==
    /\ call = ""
    /\ args = NoArgs
    /\ other_args = NoArgs
    /\ text = <<>>
    /\ parsed = Ok(NoStep)
    /\ printed = <<>>
    /\ reparsed = Ok(NoStep)

InitRate ==
    /\ pc = "start"
    /\ RateIdle
    /\ ParseIdle
    /\ SimIdle

\* mech = ReactionMechanism(steps)
NewMechanism ==
    /\ pc = "start"
    /\ \E m \in Mechanisms : mech' = m
    /\ pc' = "mech"
    /\ UNCHANGED <<rates, odes, step_index, step_odes, of_species, species_ode>>
    /\ UNCHANGED <<mech_before, mechVars>>
    /\ UNCHANGED parseVars
    /\ UNCHANGED simVars

\* mech.set_rate_constants(r)
SetRateConstants ==
    /\ pc = "mech"
    /\ \E r \in RateLists :
        /\ rates' = r
        /\ mech' = set_rate_constants(mech, r)
    /\ mech_before' = mech
    /\ pc' = "rated"
    /\ UNCHANGED <<odes, step_index, step_odes, of_species, species_ode>>
    /\ UNCHANGED mechVars
    /\ UNCHANGED parseVars
    /\ UNCHANGED simVars

\* odes = mech.get_differential_equations()
GetDifferentialEquations ==
    /\ pc \in {"mech", "rated"}
    /\ odes' = mechanism_get_differential_equations(mech)
    /\ pc' = "derived"
    /\ UNCHANGED <<mech, rates, step_index, step_odes, of_species, species_ode>>
    /\ UNCHANGED <<mech_before, mechVars>>
    /\ UNCHANGED parseVars
    /\ UNCHANGED simVars

\* step_odes = mech.steps[i].get_differential_equations()
StepGetDifferentialEquations ==
    /\ pc \in {"mech", "rated"}
    /\ \E i \in 1..Len(mech) :
        /\ step_index' = i
        /\ step_odes' = get_differential_equations(mech[i])
    /\ pc' = "derived_step"
    /\ UNCHANGED <<mech, rates, odes, of_species, species_ode>>
    /\ UNCHANGED <<mech_before, mechVars>>
    /\ UNCHANGED parseVars
    /\ UNCHANGED simVars

NextRate ==
    NewMechanism \/ SetRateConstants \/ GetDifferentialEquations
        \/ StepGetDifferentialEquations

SpecRate == InitRate /\ [][NextRate]_vars

----------------------------------------------------------------------------
(* SpecStep: one SimpleStep asked for the equation of one species; the step  *)
(* is mech[1]                                                                *)

\* the values of kf and kr
RateValues == 0..2

InitStep == InitRate

\* step = SimpleStep(reactants, products)
NewStep ==
    /\ pc = "start"
    /\ \E r \in ReactantSides, p \in ProductSides : mech' = <<SimpleStep(r, p)>>
    /\ pc' = "step"
    /\ UNCHANGED <<rates, odes, step_index, step_odes, of_species, species_ode>>
    /\ UNCHANGED <<mech_before, mechVars>>
    /\ UNCHANGED parseVars
    /\ UNCHANGED simVars

\* step.set_rate_constant(kf, kr)
SetRateConstant ==
    /\ pc = "step"
    /\ \E kf \in RateValues, kr \in RateValues :
        mech' = <<set_rate_constant(mech[1], kf, kr)>>
    /\ pc' = "step_rated"
    /\ UNCHANGED <<rates, odes, step_index, step_odes, of_species, species_ode>>
    /\ UNCHANGED <<mech_before, mechVars>>
    /\ UNCHANGED parseVars
    /\ UNCHANGED simVars

\* species_ode = step.get_differential_equation_of(species)
GetDifferentialEquationOf ==
    /\ pc \in {"step", "step_rated"}
    /\ \E s \in DictKeys(mech[1].reactants) \cup DictKeys(mech[1].products) :
        /\ of_species' = s
        /\ species_ode' = get_differential_equation_of(mech[1], s)
    /\ pc' = "derived_of"
    /\ UNCHANGED <<mech, rates, odes, step_index, step_odes>>
    /\ UNCHANGED <<mech_before, mechVars>>
    /\ UNCHANGED parseVars
    /\ UNCHANGED simVars

NextStep == NewStep \/ SetRateConstant \/ GetDifferentialEquationOf

SpecStep == InitStep /\ [][NextStep]_vars

----------------------------------------------------------------------------
(* SpecSetRates: a ReactionMechanism given rate constants twice              *)

\* mech.set_rate_constants(r), a second time
SetRateConstantsAgain ==
    /\ pc = "rated"
    /\ \E r \in RateLists :
        /\ rates' = r
        /\ mech' = set_rate_constants(mech, r)
    /\ mech_before' = mech
    /\ pc' = "rerated"
    /\ UNCHANGED <<odes, step_index, step_odes, of_species, species_ode>>
    /\ UNCHANGED mechVars
    /\ UNCHANGED parseVars
    /\ UNCHANGED simVars

NextSetRates == NewMechanism \/ SetRateConstants \/ SetRateConstantsAgain

SpecSetRates == InitRate /\ [][NextSetRates]_vars

----------------------------------------------------------------------------
(* SpecMech: a ReactionMechanism asked for its intermediates, compared with  *)
(* another one                                                               *)

\* steps of a mechanism
MaxMechSteps == 3

MechSteps ==
    { \* A+B->2C, C->D, D+C->J
      SimpleStep(<<Item(<<"A">>, 1), Item(<<"B">>, 1)>>, <<Item(<<"C">>, 2)>>),
      SimpleStep(<<Item(<<"C">>, 1)>>, <<Item(<<"D">>, 1)>>),
      SimpleStep(<<Item(<<"D">>, 1), Item(<<"C">>, 1)>>, <<Item(<<"J">>, 1)>>),
      \* 2A+B->C
      SimpleStep(<<Item(<<"A">>, 2), Item(<<"B">>, 1)>>, <<Item(<<"C">>, 1)>>),
      \* 1/20000E->B
      SimpleStep(<<[k |-> <<"E">>, v |-> PyTrueDiv(1, 20000)]>>, <<Item(<<"B">>, 1)>>),
      \* C+X(s)->D+X(s)
      SimpleStep(<<Item(<<"C">>, 1), Item(<<"X", "(", "s", ")">>, 1)>>,
                 <<Item(<<"D">>, 1), Item(<<"X", "(", "s", ")">>, 1)>>) }

MechMechanisms == UNION { [1..k -> MechSteps] : k \in 0..MaxMechSteps }

\* the right operands of mech == other: the same steps, with other rate
\* constants, in reverse, without the last, with one step replaced
OtherMechanisms(steps) ==
    { steps,
      set_rate_constants(steps, [i \in 1..Len(steps) |->
                                    <<[k |-> "kf", v |-> 1], [k |-> "kr", v |-> 3]>>]),
      [i \in 1..Len(steps) |-> steps[Len(steps) + 1 - i]],
      SubSeq(steps, 1, Len(steps) - 1) }
    \cup { [steps EXCEPT ![i] = s] : i \in 1..Len(steps), s \in MechSteps }

InitMech == InitRate

\* mech = ReactionMechanism(steps)
BuildMechanism ==
    /\ pc = "start"
    /\ \E m \in MechMechanisms : mech' = m
    /\ pc' = "mech"
    /\ UNCHANGED <<rates, odes, step_index, step_odes, of_species, species_ode>>
    /\ UNCHANGED <<mech_before, mechVars>>
    /\ UNCHANGED parseVars
    /\ UNCHANGED simVars

\* intermediates = mech.get_intermediates()
GetIntermediates ==
    /\ pc = "mech"
    /\ intermediates' = get_intermediates(mech)
    /\ pc' = "intermediates"
    /\ UNCHANGED <<mech, rates, odes, step_index, step_odes, of_species, species_ode>>
    /\ UNCHANGED <<mech_before, other_mech, equal>>
    /\ UNCHANGED parseVars
    /\ UNCHANGED simVars

\* equal = (mech == ReactionMechanism(other))
MechanismEq ==
    /\ pc = "mech"
    /\ \E other \in OtherMechanisms(mech) :
        /\ other_mech' = other
        /\ equal' = ReactionMechanismEq(mech, other)
    /\ pc' = "compared"
    /\ UNCHANGED <<mech, rates, odes, step_index, step_odes, of_species, species_ode>>
    /\ UNCHANGED <<mech_before, intermediates>>
    /\ UNCHANGED parseVars
    /\ UNCHANGED simVars

NextMech == BuildMechanism \/ GetIntermediates \/ MechanismEq

SpecMech == InitMech /\ [][NextMech]_vars

----------------------------------------------------------------------------
(* SpecRate: claims *)

\* the product over one side of concentration(species) ^ coefficient
RECURSIVE MassAction(_, _)
MassAction(side, env) ==
    IF Len(side) = 0 THEN 1
    ELSE Pow(env[side[1].k], side[1].v.n) * MassAction(Tail(side), env)

CoefOf(side, species) == IF DictHas(side, species) THEN DictGet(side, species).n ELSE 0

\* the rate of species in step by mass action:
\*   as a reactant  -cr*kf*R + cr*kr*P,  as a product  +cp*kf*R - cp*kr*P
MassActionRate(step, species, env) ==
    LET R  == MassAction(step.reactants, env)
        P  == MassAction(step.products, env)
        cr == CoefOf(step.reactants, species)
        cp == CoefOf(step.products, species)
    IN  (-cr * step.kf * R + cr * step.kr * P) + (cp * step.kf * R - cp * step.kr * P)

SpeciesOf(step) == DictKeys(step.reactants) \cup DictKeys(step.products)

\* C1 (as claimed): for every SimpleStep and every species of its mass-action
\* reactants/products, get_differential_equations gives an expression that
\* evaluates to the mass-action rate: -c*kf*R + c*kr*P for a reactant,
\* +c*kf*R - c*kr*P for a product, the sum of the two for a species on both
\* sides.
C1_StepEquations ==
    pc = "derived_step" =>
        /\ step_odes.exc = ""
        /\ \A species \in SpeciesOf(mech[step_index]) :
            /\ DictHas(step_odes.val, species)
            /\ \A env \in Envs :
                LET r == Evaluate(DictGet(step_odes.val, species), env)
                IN  r.err = "" /\ r.val = MassActionRate(mech[step_index], species, env)

\* the sum over the steps that contain species of what each step's own
\* get_differential_equations()[species] evaluates to
RECURSIVE SumOfContributions(_, _, _)
SumOfContributions(steps, species, env) ==
    IF Len(steps) = 0 THEN 0
    ELSE (IF species \in SpeciesOf(steps[1])
          THEN Evaluate(DictGet(get_differential_equations(steps[1]).val, species), env).val
          ELSE 0)
         + SumOfContributions(Tail(steps), species, env)

Reversed(seq) == [i \in 1..Len(seq) |-> seq[Len(seq) + 1 - i]]

\* C2 (as claimed): for every ReactionMechanism, get_differential_equations
\* returns a map whose keys are the union of the steps' mass-action species,
\* each expression evaluating to the sum of the per-step contributions of the
\* steps that contain the species, whatever the order of the steps.
C2_MechanismEquations ==
    pc = "derived" =>
        /\ odes.exc = ""
        /\ DictKeys(odes.val) = UNION { SpeciesOf(mech[i]) : i \in 1..Len(mech) }
        /\ \A species \in DictKeys(odes.val) : \A env \in Envs :
            LET r   == Evaluate(DictGet(odes.val, species), env)
                rev == mechanism_get_differential_equations(Reversed(mech))
            IN  /\ r.err = ""
                /\ r.val = SumOfContributions(mech, species, env)
                /\ rev.exc = ""
                /\ Evaluate(DictGet(rev.val, species), env).val = r.val

----------------------------------------------------------------------------
(* SpecMech and SpecSetRates: claims *)

CoefficientIn(side, name) == IF DictHas(side, name) THEN DictGet(side, name) ELSE PyInt(0)

\* sum of the product coefficients minus sum of the reactant coefficients of
\* name over all steps
RECURSIVE NetCoefficient(_, _)
NetCoefficient(steps, name) ==
    IF Len(steps) = 0 THEN PyInt(0)
    ELSE PyAdd(PySub(CoefficientIn(steps[1].products, name),
                     CoefficientIn(steps[1].reactants, name)),
               NetCoefficient(Tail(steps), name))

MassActionSpecies(steps) == UNION { SpeciesOf(steps[i]) : i \in 1..Len(steps) }

Reported == { intermediates[i] : i \in 1..Len(intermediates) }

\* get_intermediates returns exactly the mass-action species whose net
\* coefficient has absolute value below 1e-4
ReportsBelowTolerance ==
    Reported = { name \in MassActionSpecies(mech) :
                    PyAbsLess(NetCoefficient(mech, name), epsilon) }

\* C15 (as claimed): get_intermediates returns exactly the mass-action
\* species whose net coefficient has absolute value below 1e-4, and a species
\* with a non-zero net coefficient, or absent from the mechanism, is never
\* reported.
C15_IntermediatesAsClaimed ==
    pc = "intermediates" =>
        /\ ReportsBelowTolerance
        /\ \A name \in Reported :
                name \in MassActionSpecies(mech) /\ NetCoefficient(mech, name).n = 0

\* C15 (amended): get_intermediates returns exactly the mass-action species
\* whose net coefficient has absolute value below 1e-4; a species whose net
\* coefficient has absolute value 1e-4 or more, or absent from the
\* mechanism, is never reported.
C15_Intermediates ==
    pc = "intermediates" =>
        /\ ReportsBelowTolerance
        /\ \A name \in Reported :
                /\ name \in MassActionSpecies(mech)
                /\ PyAbsLess(NetCoefficient(mech, name), epsilon)

\* C15 witness: the intermediates of A+B->2C; C->D; D+C->J are C and D
C15_Witness ==
    /\ pc = "intermediates"
    /\ Len(mech) = 3
    /\ MassActionSpecies(mech) = { <<"A">>, <<"B">>, <<"C">>, <<"D">>, <<"J">> }
    /\ Reported = { <<"C">>, <<"D">> }

SameStoichiometry(before, after) ==
    /\ after.reactants = before.reactants
    /\ after.products = before.products
    /\ after.liquid_solid_reactants = before.liquid_solid_reactants
    /\ after.liquid_solid_products = before.liquid_solid_products

\* C16: after set_rate_constants(rates) the i-th step has the kf and kr of
\* the i-th entry, 0 for a key the entry does not have whatever the step had
\* before, and every step has the stoichiometry it had before.
C16_SetRateConstants ==
    pc \in {"rated", "rerated"} =>
        /\ Len(mech) = Len(mech_before)
        /\ \A i \in 1..Len(mech) :
            /\ SameStoichiometry(mech_before[i], mech[i])
            /\ i <= Len(rates) =>
                /\ mech[i].kf = (IF DictHas(rates[i], "kf") THEN DictGet(rates[i], "kf") ELSE 0)
                /\ mech[i].kr = (IF DictHas(rates[i], "kr") THEN DictGet(rates[i], "kr") ELSE 0)

\* C16 witness: a second call whose entry for a step has no kf, the step
\* having a non-zero kf from the first call
C16_Witness ==
    /\ pc = "rerated"
    /\ \E i \in 1..Len(mech) :
        /\ i <= Len(rates)
        /\ ~DictHas(rates[i], "kf")
        /\ mech_before[i].kf # 0
        /\ mech[i].kf = 0

\* C17: mech == other is true iff the two have the same number of steps and
\* the steps at every position have equal reactant and product maps; the
\* rate constants of the steps play no part, and mechanisms of different
\* length are never equal.
C17_MechanismEquality ==
    pc = "compared" =>
        /\ equal <=>
            /\ Len(mech) = Len(other_mech)
            /\ \A i \in 1..Len(mech) :
                /\ DictEq(mech[i].reactants, other_mech[i].reactants)
                /\ DictEq(mech[i].products, other_mech[i].products)
        /\ Len(mech) # Len(other_mech) => ~equal

\* C17 witness: two mechanisms found equal whose steps differ in kf and kr
C17_Witness ==
    /\ pc = "compared"
    /\ equal
    /\ Len(mech) > 1
    /\ \E i \in 1..Len(mech) : mech[i].kf # other_mech[i].kf /\ mech[i].kr # other_mech[i].kr

----------------------------------------------------------------------------
(* ReactionVisualizer: time, numpy and scipy                                 *)
(*                                                                           *)
(* Times are counted in ticks, a whole number of ticks to the grid spacing   *)
(* time_end / number_steps, so that every float of the code is a rational    *)
(* number here. A time between two ticks is the record [num, den].           *)

\* round(num / den), den > 0: Python rounds a half to the even neighbour
RoundHalfEven(num, den) ==
    LET q == num \div den
        r == num % den
    IN  IF 2 * r < den THEN q
        ELSE IF 2 * r > den THEN q + 1
        ELSE IF q % 2 = 0 THEN q ELSE q + 1

\* the rational num / den, den > 0, in lowest terms
Rat(num, den) ==
    LET g == Gcd(Abs(num), den)
    IN  [num |-> num \div g, den |-> den \div g]

RatLess(x, y) == x.num * y.den < y.num * x.den

\* np.linspace(start, stop, num), num >= 0: both ends are samples
linspace(start, stop, num) ==
    IF num = 1 THEN <<Rat(start, 1)>>
    ELSE [i \in 1..num |-> Rat(start * (num - 1) + (i - 1) * (stop - start), num - 1)]

\* simple_step_ode_function(cur_state, t): the derivative of each species of
\* differential_equations, the values bound to the names of state_order
simple_step_ode_function(differential_equations, state_order, state) ==
    LET dict_state == [thing \in {state_order[i] : i \in 1..Len(state_order)} |->
                        state[CHOOSE i \in 1..Len(state_order) : state_order[i] = thing]]
    IN  [i \in 1..Len(differential_equations) |->
            Evaluate(differential_equations[i].v, dict_state)]

\* One step of the integration: the rows so far and the row after the last.
\* scipy's integrator is not part of the repository: here it takes one
\* explicit Euler step of unit size from each row to the next.
EulerStep(differential_equations, state_order, before) ==
    IF before.err # "" THEN before
    ELSE CHOOSE out \in
            { IF \E i \in 1..Len(dydt) : dydt[i].err # ""
              THEN [err |-> dydt[CHOOSE i \in 1..Len(dydt) : dydt[i].err # ""].err,
                    rows |-> <<>>]
              ELSE [err |-> "",
                    rows |-> Append(before.rows,
                                [i \in 1..Len(dydt) |->
                                    before.rows[Len(before.rows)][i] + dydt[i].val])] :
              dydt \in {simple_step_ode_function(differential_equations, state_order,
                                                 before.rows[Len(before.rows)])} } : TRUE

\* The rows odeint returns for num > 0 sample times. Row 1 is y0, as with scipy.
RECURSIVE odeint(_, _, _, _)
odeint(differential_equations, state_order, y0, num) ==
    IF num = 1 THEN [err |-> "", rows |-> <<y0>>]
    ELSE CHOOSE out \in
            { EulerStep(differential_equations, state_order, before) :
              before \in {odeint(differential_equations, state_order, y0, num - 1)} } : TRUE

Values(dct) == [i \in 1..Len(dct) |-> dct[i].v]

KeyList(dct) == [i \in 1..Len(dct) |-> dct[i].k]

GetStatesRaise(e) == [exc |-> e, rows |-> <<>>, times |-> <<>>]

\* get_states once self.reaction.get_differential_equations() has returned
\* ode_dict, lines 64-74
GetStatesOf(ode_dict, state, stop, num, start) ==
    IF ode_dict.exc # "" THEN {GetStatesRaise(ode_dict.exc)}
    ELSE IF \E i \in 1..Len(state) : ~DictHas(ode_dict.val, state[i].k)
    THEN {GetStatesRaise("KeyError")}
    ELSE IF num < 0 THEN {GetStatesRaise("ValueError")}
    ELSE IF num = 0
    THEN {[exc |-> "", rows |-> <<>>, times |-> <<>>], GetStatesRaise("odeint")}
    ELSE { IF out.err # "" THEN GetStatesRaise(out.err)
           ELSE [exc |-> "", rows |-> out.rows, times |-> linspace(start, stop, num)] :
           out \in { odeint([i \in 1..Len(state) |->
                                [k |-> state[i].k, v |-> DictGet(ode_dict.val, state[i].k)]],
                            KeyList(state), Values(state), num) } }

\* self.reaction: A -> B with kf = 1
reaction ==
    set_rate_constants(<<SimpleStep(<<Item(<<"A">>, 1)>>, <<Item(<<"B">>, 1)>>)>>,
                       << <<[k |-> "kf", v |-> 1]>> >>)

\* self.reaction.get_differential_equations(), line 63: self.reaction is not
\* changed after construction, so every call of get_states gets this result
reaction_odes == mechanism_get_differential_equations(reaction)

\* self.get_states(initial_state, time_end, number_steps, initial_time): the
\* set of its possible outcomes [exc, rows, times]. odeint on no sample time
\* at all is outside what scipy documents: it returns an array of no rows or
\* it fails.
get_states(state, stop, num, start) == GetStatesOf(reaction_odes, state, stop, num, start)

----------------------------------------------------------------------------
(* ReactionVisualizer.progress_reaction *)

\* The arguments time_end and number_steps. The unit of time is half of
\* time_end / number_steps, so that an event can fall on the grid and half
\* way between two points of it.
TicksPerStep == 2

number_steps == 3

time_end == number_steps * TicksPerStep

\* the longest list of events
MaxEvents == 2

Conc(name, c) == [k |-> name, v |-> c]

\* the species in another order than the reaction lists them
InitialStates == { <<Conc(<<"B">>, 1), Conc(<<"A">>, 2)>> }

\* (time, ReactionEvent, additional_info)
Event(time, kind, species, value) ==
    [time |-> time, kind |-> kind, species |-> species, value |-> value]

AdditionalInfos ==
    { <<"CHANGE_CONCENTRATION", <<"A">>, 1>>,
      <<"CHANGE_CONCENTRATION", <<"B">>, 0>>,
      <<"CHANGE_CONCENTRATION", <<"Z">>, 1>>,
      <<"SET_CONCENTRATION", <<"A">>, 1>>,
      <<"SMOOTH_CHANGE_CONCENTRATION", <<"A">>, 1>> }

Events == { Event(t, i[1], i[2], i[3]) : t \in 0..time_end, i \in AdditionalInfos }

\* events, a list in any order
EventLists ==
    { [none |-> FALSE, list |-> l] : l \in UNION { [1..n -> Events] : n \in 0..MaxEvents } }

\* (time_end, None, tuple())
TerminalEvent == Event(time_end, "None", <<>>, 0)

\* sorted(events, key=lambda x: x[0]): stable, so an event goes behind the
\* events of the same time that came before it
RECURSIVE sorted(_)
sorted(list) ==
    IF Len(list) <= 1 THEN list
    ELSE LET init == sorted(SubSeq(list, 1, Len(list) - 1))
             last == list[Len(list)]
             n    == Cardinality({i \in 1..Len(init) : init[i].time <= last.time})
         IN  SubSeq(init, 1, n) \o <<last>> \o SubSeq(init, n + 1, Len(init))

\* a CHANGE_CONCENTRATION that forgets additional_info[1]
ChangeConcentrationWithoutDelta(state, last_row, species, value) ==
    [i \in 1..Len(state) |-> [k |-> state[i].k, v |-> last_row[i]]]

\* lines 117-122: every species takes its value in the last row, the species
\* of the event that value plus additional_info[1]
ChangeConcentration(state, last_row, species, value) ==
    [i \in 1..Len(state) |->
        [k |-> state[i].k,
         v |-> IF state[i].k = species THEN last_row[i] + value ELSE last_row[i]]]

\* lines 123-128: the same loop as for CHANGE_CONCENTRATION
SetConcentration(state, last_row, species, value) ==
    [i \in 1..Len(state) |->
        [k |-> state[i].k,
         v |-> IF state[i].k = species THEN last_row[i] + value ELSE last_row[i]]]

\* the record of one call of get_states and of what it returned
Segment(state, start, stop, num, cur_data) ==
    [initial_state |-> state, initial_time |-> start, time_end |-> stop,
     number_steps |-> num, rows |-> cur_data.rows]

SimInit ==
    /\ pc = "start"
    /\ SimIdle
    /\ ParseIdle
    /\ RateIdle

\* progress_reaction(initial_state, time_end, number_steps, events) with a
\* list of events, lines 101-105: up to the loop
SortEvents ==
    /\ pc = "start"
    /\ initial_state' \in InitialStates
    /\ events' \in EventLists
    /\ sorted_events' = Append(sorted(events'.list), TerminalEvent)
    /\ cur_state' = initial_state'
    /\ prev_time_point_discretized' = 0
    /\ next_event' = 1
    /\ pc' = "loop"
    /\ UNCHANGED <<data, sample_times, segments, exc, frame>>
    /\ UNCHANGED prev_time_point
    /\ UNCHANGED parseVars
    /\ UNCHANGED rateVars

\* progress_reaction(initial_state, time_end, number_steps), line 133
SingleRun ==
    /\ pc = "start"
    /\ initial_state' \in InitialStates
    /\ events' = NoEvents
    /\ \E cur_data \in get_states(initial_state', time_end, number_steps, 0) :
        /\ segments' = Append(segments,
                Segment(initial_state', 0, time_end, number_steps, cur_data))
        /\ data' = cur_data.rows
        /\ sample_times' = cur_data.times
        /\ exc' = cur_data.exc
        /\ pc' = IF cur_data.exc # "" THEN "raised" ELSE "frame"
    /\ UNCHANGED <<sorted_events, next_event, cur_state,
                   prev_time_point_discretized, frame>>
    /\ UNCHANGED prev_time_point
    /\ UNCHANGED parseVars
    /\ UNCHANGED rateVars

\* lines 107-131: one iteration of the loop over sorted_events
LoopIteration ==
    /\ pc = "loop"
    /\ LET event == sorted_events[next_event]
           time_point == event.time
           time_interval == time_end \div number_steps
           time_point_discretized ==
                RoundHalfEven(time_point, time_interval) * time_interval
           cur_number_steps ==
                RoundHalfEven((time_point - prev_time_point_discretized) * number_steps,
                              time_end)
       IN  \E cur_data \in get_states(cur_state, time_point, cur_number_steps,
                                      prev_time_point_discretized) :
            /\ segments' = Append(segments,
                    Segment(cur_state, prev_time_point_discretized, time_point,
                            cur_number_steps, cur_data))
            /\ IF cur_data.exc # ""
               THEN /\ exc' = cur_data.exc
                    /\ pc' = "raised"
                    /\ UNCHANGED <<data, sample_times, cur_state,
                                   prev_time_point_discretized, next_event>>
               ELSE IF /\ event.kind \in {"CHANGE_CONCENTRATION", "SET_CONCENTRATION"}
                       /\ cur_data.rows = <<>>
               THEN \* cur_data[-1, index] of an array without rows
                    /\ exc' = "IndexError"
                    /\ pc' = "raised"
                    /\ data' = data \o cur_data.rows
                    /\ sample_times' = sample_times \o cur_data.times
                    /\ UNCHANGED <<cur_state, prev_time_point_discretized, next_event>>
               ELSE /\ data' = data \o cur_data.rows
                    /\ sample_times' = sample_times \o cur_data.times
                    /\ cur_state' =
                        IF event.kind = "CHANGE_CONCENTRATION"
                        THEN ChangeConcentration(cur_state, cur_data.rows[Len(cur_data.rows)],
                                                 event.species, event.value)
                        ELSE IF event.kind = "SET_CONCENTRATION"
                        THEN SetConcentration(cur_state, cur_data.rows[Len(cur_data.rows)],
                                              event.species, event.value)
                        ELSE cur_state
                    /\ prev_time_point_discretized' = time_point_discretized
                    /\ next_event' = next_event + 1
                    /\ pc' = IF next_event = Len(sorted_events) THEN "frame" ELSE "loop"
                    /\ exc' = ""
    /\ UNCHANGED <<initial_state, events, sorted_events, frame>>
    /\ UNCHANGED prev_time_point
    /\ UNCHANGED parseVars
    /\ UNCHANGED rateVars

\* lines 134 and 151: the Time column and the DataFrame, whose columns must
\* all have the same length
MakeFrame ==
    /\ pc = "frame"
    /\ LET times == linspace(0, time_end, number_steps)
       IN  IF Len(data) # Len(times)
           THEN /\ exc' = "ValueError"
                /\ pc' = "raised"
                /\ frame' = frame
           ELSE /\ frame' = [Time |-> times, columns |-> data]
                /\ pc' = "done"
                /\ exc' = ""
    /\ UNCHANGED <<initial_state, events, sorted_events, next_event, cur_state,
                   prev_time_point_discretized, data, sample_times, segments>>
    /\ UNCHANGED prev_time_point
    /\ UNCHANGED parseVars
    /\ UNCHANGED rateVars

Next == SortEvents \/ SingleRun \/ LoopIteration \/ MakeFrame

Spec == SimInit /\ [][Next]_vars

----------------------------------------------------------------------------
(* SpecRobust: ReactionVisualizer.progress_reaction_robust                   *)
(*                                                                           *)
(* solve_ivp chooses its own time points; here it samples every tick from    *)
(* the start to the end of its span, by the explicit Euler steps of odeint.  *)
(* Its result is an OdeResult, a dict with attribute access: t the times     *)
(* and y the concentrations, kept here as one row per time.                  *)

solve_ivp(differential_equations, state_order, y0, t_start, t_end) ==
    LET out == odeint(differential_equations, state_order, y0, t_end - t_start + 1)
    IN  [exc |-> out.err,
         t   |-> IF out.err # "" THEN <<>>
                 ELSE [i \in 1..(t_end - t_start + 1) |-> t_start + i - 1],
         y   |-> IF out.err # "" THEN <<>> ELSE out.rows]

\* self.get_states_robust(initial_state, time_end, initial_time), lines 174-183
get_states_robust(state, stop, start) ==
    IF reaction_odes.exc # "" THEN [exc |-> reaction_odes.exc, t |-> <<>>, y |-> <<>>]
    ELSE IF \E i \in 1..Len(state) : ~DictHas(reaction_odes.val, state[i].k)
    THEN [exc |-> "KeyError", t |-> <<>>, y |-> <<>>]
    ELSE solve_ivp([i \in 1..Len(state) |->
                        [k |-> state[i].k, v |-> DictGet(reaction_odes.val, state[i].k)]],
                   KeyList(state), Values(state), start, stop)

\* the segment of one get_states_robust call
RobustSegment(state, start, stop, cur_data) ==
    [initial_state |-> state, initial_time |-> start, time_end |-> stop,
     rows |-> cur_data.y, times |-> cur_data.t]

\* progress_reaction_robust(initial_state, time_end, events) with a list of
\* events, lines 210-215: up to the loop; data is np.ndarray((0, 0))
RobustSortEvents ==
    /\ pc = "start"
    /\ initial_state' \in InitialStates
    /\ events' \in EventLists
    /\ sorted_events' = Append(sorted(events'.list), TerminalEvent)
    /\ cur_state' = initial_state'
    /\ prev_time_point' = 0
    /\ next_event' = 1
    /\ pc' = "loop"
    /\ UNCHANGED <<prev_time_point_discretized, data, sample_times, segments, exc, frame>>
    /\ UNCHANGED parseVars
    /\ UNCHANGED rateVars

\* progress_reaction_robust(initial_state, time_end), line 238
RobustSingleRun ==
    /\ pc = "start"
    /\ initial_state' \in InitialStates
    /\ events' = NoEvents
    /\ LET cur_data == get_states_robust(initial_state', time_end, 0)
       IN  /\ segments' = Append(segments, RobustSegment(initial_state', 0, time_end, cur_data))
           /\ data' = [t |-> cur_data.t, y |-> cur_data.y]
           /\ exc' = cur_data.exc
           /\ pc' = IF cur_data.exc # "" THEN "raised" ELSE "frame"
    /\ UNCHANGED <<sorted_events, next_event, cur_state, prev_time_point_discretized,
                   prev_time_point, sample_times, frame>>
    /\ UNCHANGED parseVars
    /\ UNCHANGED rateVars

\* lines 217-236: one iteration of the loop over sorted_events. len(data) is
\* 0 for the empty array data starts as; once data is an OdeResult len(data)
\* is the number of its keys, and np.concatenate of two OdeResults raises
\* ValueError (they are arrays of no dimension to numpy). cur_data[-1, index]
\* looks the key (-1, index) up in the OdeResult, which does not have it.
RobustLoopIteration ==
    /\ pc = "loop"
    /\ LET event      == sorted_events[next_event]
           time_point == event.time
           cur_data   == get_states_robust(cur_state, time_point, prev_time_point)
       IN  /\ segments' = Append(segments,
                    RobustSegment(cur_state, prev_time_point, time_point, cur_data))
           /\ IF cur_data.exc # ""
              THEN /\ exc' = cur_data.exc
                   /\ pc' = "raised"
                   /\ UNCHANGED <<data, cur_state, prev_time_point, next_event>>
              ELSE IF data # <<>>
              THEN /\ exc' = "ValueError"
                   /\ pc' = "raised"
                   /\ UNCHANGED <<data, cur_state, prev_time_point, next_event>>
              ELSE IF event.kind \in {"CHANGE_CONCENTRATION", "SET_CONCENTRATION"}
              THEN /\ data' = [t |-> cur_data.t, y |-> cur_data.y]
                   /\ exc' = "KeyError"
                   /\ pc' = "raised"
                   /\ UNCHANGED <<cur_state, prev_time_point, next_event>>
              ELSE /\ data' = [t |-> cur_data.t, y |-> cur_data.y]
                   /\ prev_time_point' = time_point
                   /\ next_event' = next_event + 1
                   /\ pc' = IF next_event = Len(sorted_events) THEN "frame" ELSE "loop"
                   /\ exc' = ""
                   /\ UNCHANGED cur_state
    /\ UNCHANGED <<initial_state, events, sorted_events, prev_time_point_discretized,
                   sample_times, frame>>
    /\ UNCHANGED parseVars
    /\ UNCHANGED rateVars

\* line 255: the DataFrame of data.t and the rows of data.y
RobustMakeFrame ==
    /\ pc = "frame"
    /\ frame' = [Time |-> data.t, columns |-> data.y]
    /\ pc' = "done"
    /\ UNCHANGED <<initial_state, events, sorted_events, next_event, cur_state,
                   prev_time_point_discretized, prev_time_point, data, sample_times,
                   segments, exc>>
    /\ UNCHANGED parseVars
    /\ UNCHANGED rateVars

NextRobust == RobustSortEvents \/ RobustSingleRun \/ RobustLoopIteration \/ RobustMakeFrame

SpecRobust == SimInit /\ [][NextRobust]_vars

----------------------------------------------------------------------------
(* Spec: claims *)

\* the last row of the k-th segment
LastRow(k) == segments[k].rows[Len(segments[k].rows)]

\* the k-th segment was closed by an event of this kind and a segment follows
EventApplied(k, kind) ==
    /\ k \in 1..(Len(segments) - 1)
    /\ k <= Len(sorted_events)
    /\ sorted_events[k].kind = kind

\* C3: after a ChangeConcentration(species, delta) event the next segment
\* starts, for the target species, at the last sampled value of the preceding
\* segment plus delta and, for every other species of initial_state, at
\* exactly its last sampled value; its first row is that state.
C3_ChangeConcentration ==
    \A k \in 1..Len(segments) :
        EventApplied(k, "CHANGE_CONCENTRATION") =>
            LET event == sorted_events[k]
                after == segments[k + 1]
            IN  /\ KeyList(after.initial_state) = KeyList(initial_state)
                /\ \A i \in 1..Len(initial_state) :
                    after.initial_state[i].v =
                        IF initial_state[i].k = event.species
                        THEN LastRow(k)[i] + event.value
                        ELSE LastRow(k)[i]
                /\ after.rows # <<>> => after.rows[1] = Values(after.initial_state)

\* C3, its case: a ChangeConcentration event with a non-zero delta closed a
\* segment of several rows and the next segment has been integrated
C3_Witness ==
    \E k \in 1..Len(segments) :
        /\ EventApplied(k, "CHANGE_CONCENTRATION")
        /\ sorted_events[k].value # 0
        /\ Len(segments[k].rows) > 1
        /\ segments[k + 1].rows # <<>>

\* C4 (as claimed): after a SetConcentration(species, value) event the next
\* segment starts with the target species at value outright, and every other
\* species at its last sampled value.
C4_SetConcentration ==
    \A k \in 1..Len(segments) :
        EventApplied(k, "SET_CONCENTRATION") =>
            \A i \in 1..Len(initial_state) :
                segments[k + 1].initial_state[i].v =
                    IF initial_state[i].k = sorted_events[k].species
                    THEN sorted_events[k].value
                    ELSE LastRow(k)[i]

\* C5 (as claimed): the times at which the rows of the stitched trajectory
\* were sampled are strictly increasing, so no boundary between two segments
\* is sampled twice, and a finished trajectory runs from 0 to time_end.
C5_NoDuplicateBoundarySample ==
    /\ \A i \in 1..(Len(sample_times) - 1) : RatLess(sample_times[i], sample_times[i + 1])
    /\ pc = "done" =>
        /\ sample_times[1] = Rat(0, 1)
        /\ sample_times[Len(sample_times)] = Rat(time_end, 1)

RECURSIVE SumOfSteps(_)
SumOfSteps(k) == IF k = 0 THEN 0 ELSE SumOfSteps(k - 1) + segments[k].number_steps

\* every segment was given at least one step: none depends on what odeint
\* makes of an empty list of times
EverySegmentSampled == \A k \in 1..Len(segments) : segments[k].number_steps > 0

\* C6 (as claimed, for the runs in which every segment has at least one
\* step): with events whose times are in [0, time_end], once the loop is over
\* the numbers of steps of the segments sum to number_steps, and the stitched
\* trajectory has number_steps rows, as many as the Time column.
C6_SampleCountsSumToResolution ==
    (pc = "frame" /\ ~events.none /\ EverySegmentSampled) =>
        /\ SumOfSteps(Len(segments)) = number_steps
        /\ Len(data) = Len(linspace(0, time_end, number_steps))

\* C7 (as claimed): the events are processed in ascending order of time, the
\* terminal event at time_end last, so every segment ends no earlier than it
\* starts and the last segment ends at time_end.
C7_AscendingOrder ==
    ~events.none =>
        /\ \A k \in 1..(Len(sorted_events) - 1) :
                sorted_events[k].time <= sorted_events[k + 1].time
        /\ sorted_events # <<>> =>
            /\ sorted_events[Len(sorted_events)] = TerminalEvent
            /\ \A e \in Events :
                Cardinality({k \in 1..Len(events.list) : events.list[k] = e})
                    = Cardinality({k \in 1..(Len(sorted_events) - 1) : sorted_events[k] = e})
        /\ \A k \in 1..Len(segments) : segments[k].initial_time <= segments[k].time_end
        /\ pc \in {"frame", "done"} => segments[Len(segments)].time_end = time_end

\* an event of the call names a species that initial_state does not have
NamesAbsentSpecies ==
    \E k \in 1..Len(events.list) : ~DictHas(initial_state, events.list[k].species)

\* C11 (as claimed, for the runs in which every segment has at least one
\* step): when an event names a species absent from initial_state the call
\* fails with a KeyError; it never goes through its loop as if the event had
\* not been there.
C11_AbsentSpeciesRaises ==
    (pc \in {"frame", "done", "raised"} /\ NamesAbsentSpecies /\ EverySegmentSampled) =>
        (pc = "raised" /\ exc = "KeyError")

\* C18 (as claimed): a SmoothChangeConcentration event changes no
\* concentration: the segment after it starts, for every species, at the
\* last sample of the segment the event closed.
C18_SmoothChangeIsNoOp ==
    \A k \in 1..Len(segments) :
        (EventApplied(k, "SMOOTH_CHANGE_CONCENTRATION") /\ segments[k].rows # <<>>) =>
            /\ KeyList(segments[k + 1].initial_state) = KeyList(initial_state)
            /\ \A i \in 1..Len(initial_state) :
                    segments[k + 1].initial_state[i].v = LastRow(k)[i]

\* t is a multiple of the grid spacing time_end / number_steps
OnGrid(t) == t % (time_end \div number_steps) = 0

\* C19 (as claimed): with events, every segment is integrated up to the grid
\* multiple nearest to the time of the event that closes it, and the next
\* segment starts at the time at which it ended.
C19_SegmentsEndOnGrid ==
    ~events.none =>
        \A k \in 1..Len(segments) : segments[k].rows # <<>> =>
            /\ OnGrid(segments[k].time_end)
            /\ 2 * Abs(segments[k].time_end - sorted_events[k].time)
                    <= time_end \div number_steps
            /\ k < Len(segments) => segments[k + 1].initial_time = segments[k].time_end

\* C20 (as claimed): in progress_reaction_robust with events every segment
\* is integrated from the time of the previous event to the time of its own
\* event, both as given; a ChangeConcentration event is applied to the last
\* sample of its segment, read species by species in the order of
\* initial_state; the samples of the segments make up the trajectory, which
\* the call returns and which covers [0, time_end].
C20_RobustSegments ==
    (~events.none /\ events.list # <<>>) =>
        /\ pc # "raised"
        /\ \A k \in 1..Len(segments) :
            /\ segments[k].initial_time = (IF k = 1 THEN 0 ELSE sorted_events[k - 1].time)
            /\ segments[k].time_end = sorted_events[k].time
            /\ (k > 1 /\ sorted_events[k - 1].kind = "CHANGE_CONCENTRATION") =>
                \A i \in 1..Len(initial_state) :
                    segments[k].initial_state[i].v =
                        LastRow(k - 1)[i]
                        + (IF initial_state[i].k = sorted_events[k - 1].species
                           THEN sorted_events[k - 1].value ELSE 0)
        /\ pc = "done" =>
            /\ frame.Time # <<>>
            /\ frame.Time[1] = 0
            /\ frame.Time[Len(frame.Time)] = time_end
            /\ Len(frame.columns) = Len(frame.Time)

\* C21 (as claimed): in the table progress_reaction returns, the Time of
\* every row is the time at which get_states sampled the row, without events
\* and with any list of events: the Time column linspace(0, time_end,
\* number_steps) is the concatenation of the sample times of the segments.
C21_TimeColumnIsSampleTimes ==
    (pc = "done" /\ EverySegmentSampled) =>
        /\ Len(frame.Time) = Len(sample_times)
        /\ \A i \in 1..Len(frame.Time) : frame.Time[i] = sample_times[i]

====
